---- MODULE Spec2Model ----
(***************************************************************************)
(* Smart Triage AI Pro (src/streamlit_app.py): the decision engine and the *)
(* Streamlit session around it.                                            *)
(*                                                                         *)
(* Number representation.  The program computes with Python floats; here   *)
(* every quantity is an integer in a fixed unit:                           *)
(*   temp                  tenths of a degree Celsius (36.6 -> 366)        *)
(*   shock index           hundredths (round(hr / sbp, 2) * 100)           *)
(*   base weights          thousandths (0.55 -> 550)                       *)
(*   z (logit)             1e-7                                            *)
(*   probabilities, risk,                                                  *)
(*   uncertainty, contrib  1e-4 (0.70 -> 7000, 0.05 -> 500)                *)
(* Strings are written without diacritics; the emoji that starts a triage  *)
(* label is the field `emoji` ("RED", "YELLOW", "GREEN").                  *)
(***************************************************************************)
EXTENDS Integers, Sequences, FiniteSets, TLC

VARIABLES
    logs,           \* st.session_state["logs"]: the rows, oldest first
    vitals_series,  \* st.session_state["vitals_series"]
    last_case,      \* st.session_state["last_case"]: NoCase (None) or a case
    enable_notify,  \* st.session_state["enable_notify"]
    run,            \* what the last script run did in tab 1
    call            \* a direct call of one function: arguments and result

vars == <<logs, vitals_series, last_case, enable_notify, run, call>>

\* ------------------------------------------------------------------------
\* Bounds of the model
\* ------------------------------------------------------------------------
\* submissions kept in one session before the model stops accepting more
MaxLogs == 3
\* the same, where the handler is given arbitrary Patient records
MaxGateLogs == 2

\* ------------------------------------------------------------------------
\* Small helpers
\* ------------------------------------------------------------------------
Max(a, b) == IF a >= b THEN a ELSE b
Min(a, b) == IF a <= b THEN a ELSE b
Abs(a) == IF a < 0 THEN -a ELSE a
Append1(cond, seq, item) == IF cond THEN Append(seq, item) ELSE seq
BoolInt(b) == IF b THEN 1 ELSE 0

\* ------------------------------------------------------------------------
\* DATA MODEL
\* ------------------------------------------------------------------------
\* the form's default values (lines 614-644): an unremarkable adult
DefaultPatient ==
    [age |-> 35, hr |-> 80, sbp |-> 120, spo2 |-> 98, rr |-> 18, temp |-> 366,
     gcs_e |-> 4, gcs_v |-> 5, gcs_m |-> 6,
     chest_pain |-> FALSE, dyspnea |-> FALSE, trauma |-> FALSE, pain_level |-> 0,
     onset |-> "Tu tu", progression |-> "On dinh",
     fast_stroke |-> FALSE, bleeding |-> FALSE, abdominal_pain |-> FALSE,
     pregnancy |-> FALSE, infection_suspected |-> FALSE,
     anaphylaxis |-> FALSE, poisoning_overdose |-> FALSE]

\* ------------------------------------------------------------------------
\* CLINICAL UTILITIES
\* ------------------------------------------------------------------------
gcs_total(p) == p.gcs_e + p.gcs_v + p.gcs_m

\* round(x, 2) of the float hr / sbp, for the ratios that fall exactly
\* halfway between two hundredths ((2q+1)/200): Python rounds the binary
\* float nearest to the ratio, which lies above the midpoint for these q and
\* below it (or on it, with an even q) for every other q that 20 <= hr <= 250,
\* 40 <= sbp <= 250 produce.
HalfRoundsUp ==
    {11, 13, 16, 19, 22, 25, 26, 27, 31, 32, 33, 37, 38, 39, 40, 44, 45, 46,
     50, 51, 52, 53, 54, 55, 63, 64, 65, 66, 67, 68, 75, 76, 77, 78, 79, 80,
     87, 88, 89, 90, 91, 92, 93, 113, 114, 115, 116, 117, 118, 119, 120, 121,
     122, 123, 124, 137, 142, 147, 167, 172, 187, 192, 197, 207, 222, 232,
     237, 247, 257, 272, 282, 287, 297, 307, 322, 332, 337, 347, 357, 372,
     382, 387, 397, 402, 407, 427, 432, 437, 452, 457, 477, 482, 487, 502,
     507, 527, 532, 537, 552, 557, 577, 582, 587, 602, 607}

\* round(hr / sbp, 2), in hundredths
Round2(hr, sbp) ==
    LET q == (100 * hr) \div sbp
        rem == (100 * hr) % sbp
    IN  IF 2 * rem > sbp THEN q + 1
        ELSE IF 2 * rem < sbp THEN q
        ELSE IF q \in HalfRoundsUp THEN q + 1 ELSE q

calculate_shock_index_truncates(hr, sbp) ==
    IF sbp > 0 THEN (100 * hr) \div sbp ELSE 0

calculate_shock_index(hr, sbp) == IF sbp > 0 THEN Round2(hr, sbp) ELSE 0

calculate_ews_hr_inclusive(hr, rr, sbp, temp, spo2) ==
    LET s1 == IF hr >= 110 \/ hr < 50 THEN 2 ELSE 0
        s2 == IF rr > 24 \/ rr < 10 THEN s1 + 2 ELSE s1
        s3 == IF sbp < 90 \/ sbp > 180 THEN s2 + 2 ELSE s2
        s4 == IF temp > 385 \/ temp < 355 THEN s3 + 1 ELSE s3
        s5 == IF spo2 < 94 THEN s4 + 3 ELSE s4
    IN  s5

calculate_ews(hr, rr, sbp, temp, spo2) ==
    LET score0 == 0
        score1 == IF hr > 110 \/ hr < 50 THEN score0 + 2 ELSE score0
        score2 == IF rr > 24 \/ rr < 10 THEN score1 + 2 ELSE score1
        score3 == IF sbp < 90 \/ sbp > 180 THEN score2 + 2 ELSE score2
        score4 == IF temp > 385 \/ temp < 355 THEN score3 + 1 ELSE score3
        score5 == IF spo2 < 94 THEN score4 + 3 ELSE score4
    IN  score5

\* ------------------------------------------------------------------------
\* VALIDATION
\* ------------------------------------------------------------------------
validate_inputs_any_issue_blocks(p) ==
    LET g == gcs_total(p)
        h1 == Append1(~(0 <= p.age /\ p.age <= 120), <<>>, "Tuoi ngoai pham vi 0-120.")
        h2 == Append1(~(20 <= p.hr /\ p.hr <= 250), h1, "HR ngoai pham vi 20-250.")
        h3 == Append1(~(40 <= p.sbp /\ p.sbp <= 250), h2, "SBP ngoai pham vi 40-250.")
        h4 == Append1(~(50 <= p.spo2 /\ p.spo2 <= 100), h3, "SpO2 ngoai pham vi 50-100%.")
        h5 == Append1(~(5 <= p.rr /\ p.rr <= 60), h4, "RR ngoai pham vi 5-60.")
        h6 == Append1(~(340 <= p.temp /\ p.temp <= 420), h5, "Nhiet do ngoai pham vi 34-42C.")
        hard == Append1(~(3 <= g /\ g <= 15), h6, "GCS khong hop le.")
        s1 == Append1(p.spo2 < 88 /\ ~p.dyspnea, <<>>,
                      "SpO2 rat thap nhung chua tick 'Kho tho' (kiem tra lai).")
        soft == Append1(p.pregnancy /\ p.age < 10, s1,
                        "Thai ky + tuoi rat nho (kiem tra lai).")
    IN  [ok |-> Len(hard \o soft) = 0, issues |-> hard \o soft]

validate_inputs(p) ==
    LET g == gcs_total(p)
        h1 == Append1(~(0 <= p.age /\ p.age <= 120), <<>>, "Tuoi ngoai pham vi 0-120.")
        h2 == Append1(~(20 <= p.hr /\ p.hr <= 250), h1, "HR ngoai pham vi 20-250.")
        h3 == Append1(~(40 <= p.sbp /\ p.sbp <= 250), h2, "SBP ngoai pham vi 40-250.")
        h4 == Append1(~(50 <= p.spo2 /\ p.spo2 <= 100), h3, "SpO2 ngoai pham vi 50-100%.")
        h5 == Append1(~(5 <= p.rr /\ p.rr <= 60), h4, "RR ngoai pham vi 5-60.")
        h6 == Append1(~(340 <= p.temp /\ p.temp <= 420), h5, "Nhiet do ngoai pham vi 34-42C.")
        hard == Append1(~(3 <= g /\ g <= 15), h6, "GCS khong hop le.")
        s1 == Append1(p.spo2 < 88 /\ ~p.dyspnea, <<>>,
                      "SpO2 rat thap nhung chua tick 'Kho tho' (kiem tra lai).")
        soft == Append1(p.pregnancy /\ p.age < 10, s1,
                        "Thai ky + tuoi rat nho (kiem tra lai).")
    IN  [ok |-> Len(hard) = 0, issues |-> hard \o soft]

\* ------------------------------------------------------------------------
\* HARD SAFETY (RED FLAGS)
\* ------------------------------------------------------------------------
\* every flag is a tuple: the text, and for the shock index the value the
\* f-string prints
red_flags_first_match(p, si, ews) ==
    LET g == gcs_total(p)
    IN  IF p.anaphylaxis THEN << <<"Nghi soc phan ve">> >>
        ELSE IF g <= 8 THEN << <<"Hon me nang (GCS <= 8)">> >>
        ELSE IF p.fast_stroke THEN << <<"FAST duong tinh (nghi dot quy)">> >>
        ELSE IF p.spo2 < 90 THEN << <<"Suy ho hap nang (SpO2 < 90%)">> >>
        ELSE IF p.sbp < 90 THEN << <<"Soc / tut huyet ap (SBP < 90)">> >>
        ELSE IF si > 100 THEN << <<"Shock Index nguy hiem", si>> >>
        ELSE IF p.rr >= 30 THEN << <<"Tho nhanh nang (RR >= 30)">> >>
        ELSE IF p.hr >= 140 THEN << <<"Mach nhanh nang (HR >= 140)">> >>
        ELSE IF p.bleeding /\ (p.sbp < 100 \/ p.hr > 110)
        THEN << <<"Chay mau + huyet dong xau">> >>
        ELSE IF p.poisoning_overdose /\ g <= 12
        THEN << <<"Nghi ngo doc + giam tri giac">> >>
        ELSE IF ews >= 7 THEN << <<"EWS rat cao (>= 7)">> >>
        ELSE <<>>

red_flags(p, si, ews) ==
    LET g == gcs_total(p)
        f1 == Append1(p.anaphylaxis, <<>>, <<"Nghi soc phan ve">>)
        f2 == Append1(g <= 8, f1, <<"Hon me nang (GCS <= 8)">>)
        f3 == Append1(p.fast_stroke, f2, <<"FAST duong tinh (nghi dot quy)">>)
        f4 == Append1(p.spo2 < 90, f3, <<"Suy ho hap nang (SpO2 < 90%)">>)
        f5 == Append1(p.sbp < 90, f4, <<"Soc / tut huyet ap (SBP < 90)">>)
        f6 == Append1(si > 100, f5, <<"Shock Index nguy hiem", si>>)
        f7 == Append1(p.rr >= 30, f6, <<"Tho nhanh nang (RR >= 30)">>)
        f8 == Append1(p.hr >= 140, f7, <<"Mach nhanh nang (HR >= 140)">>)
        f9 == Append1(p.bleeding /\ (p.sbp < 100 \/ p.hr > 110), f8,
                      <<"Chay mau + huyet dong xau">>)
        f10 == Append1(p.poisoning_overdose /\ g <= 12, f9,
                       <<"Nghi ngo doc + giam tri giac">>)
        f11 == Append1(ews >= 7, f10, <<"EWS rat cao (>= 7)">>)
    IN  f11
\* ------------------------------------------------------------------------
\* ESI (ESI-lite) + RESOURCES
\* ------------------------------------------------------------------------
estimate_resources(p) ==
    LET r1 == IF p.chest_pain THEN 2 ELSE 0
        r2 == IF p.dyspnea \/ p.spo2 < 94 THEN r1 + 2 ELSE r1
        r3 == IF p.trauma THEN r2 + 2 ELSE r2
        r4 == IF p.bleeding THEN r3 + 2 ELSE r3
        r5 == IF p.abdominal_pain THEN r4 + 1 ELSE r4
        r6 == IF p.infection_suspected THEN r5 + 1 ELSE r5
        r7 == IF p.poisoning_overdose THEN r6 + 2 ELSE r6
        r8 == IF p.pregnancy THEN r7 + 1 ELSE r7
    IN  r8

\* returns (level, note); the note of level 3 prints the resource count
esi_level(p, flags, ews) ==
    IF Len(flags) > 0
    THEN <<1, <<"ESI-1: can can thiep cuu song ngay (red flags).">>>>
    ELSE IF p.fast_stroke \/ p.anaphylaxis \/ p.chest_pain \/ p.dyspnea \/ ews >= 3
    THEN <<2, <<"ESI-2: nguy co cao/khong duoc cham (trieu chung/diem canh bao).">>>>
    ELSE LET res == estimate_resources(p)
         IN  IF res >= 2
             THEN <<3, <<"ESI-3: on dinh nhung can >=2 resources (uoc luong)", res>>>>
             ELSE IF res = 1
             THEN <<4, <<"ESI-4: on dinh, can 1 resource.">>>>
             ELSE <<5, <<"ESI-5: on dinh, hau nhu khong can resource.">>>>

\* ------------------------------------------------------------------------
\* AI RISK + UNCERTAINTY (NO TRAIN)
\* ------------------------------------------------------------------------
\* 1e4 / (1 + exp(-x)) at x = -10.0, -9.5, ..., 10.0
SigmoidKnots ==
    <<0, 1, 1, 2, 3, 6, 9, 15, 25, 41, 67, 110, 180, 293, 474, 759, 1192,
      1824, 2689, 3775, 5000, 6225, 7311, 8176, 8808, 9241, 9526, 9707, 9820,
      9890, 9933, 9959, 9975, 9985, 9991, 9994, 9997, 9998, 9999, 9999, 10000>>

\* x in 1e-7, result in 1e-4: the clamp to [-40, 40] of the code, then the
\* logistic function read off SigmoidKnots with linear interpolation
sigmoid(x0) ==
    LET x == Max(Min(x0, 400000000), -400000000)
    IN  IF x < -100000000 THEN 0
        ELSE IF x >= 100000000 THEN 10000
        ELSE LET k == (x + 100000000) \div 5000000
                 frac == ((x + 100000000) % 5000000) \div 5000
                 lo == SigmoidKnots[k + 1]
                 hi == SigmoidKnots[k + 2]
             IN  lo + ((hi - lo) * frac) \div 1000

FEATURE_LABELS ==
    [spo2_drop |-> "SpO2 thap", sbp_drop |-> "Huyet ap thap",
     hr_excess |-> "Mach nhanh", rr_excess |-> "Tho nhanh",
     gcs_drop |-> "Tri giac giam (GCS)", temp_excess |-> "Sot",
     chest_pain |-> "Dau nguc", dyspnea |-> "Kho tho", trauma |-> "Chan thuong",
     pain_hi |-> "Dau nhieu (VAS >= 7)", onset_sudden |-> "Khoi phat dot ngot",
     worsening |-> "Nang dan", fast_stroke |-> "FAST (+)", bleeding |-> "Chay mau",
     abdominal_pain |-> "Dau bung cap", pregnancy |-> "Thai ky",
     infection |-> "Nghi nhiem trung", anaphylaxis |-> "Soc phan ve",
     poisoning |-> "Ngo doc/qua lieu", age |-> "Tuoi"]

\* the dict of the code, in insertion order: <<key, value in tenths>>
features(p) ==
    LET g == gcs_total(p)
    IN  << <<"age", 10 * p.age>>,
           <<"hr_excess", 10 * Max(0, p.hr - 90)>>,
           <<"sbp_drop", 10 * Max(0, 100 - p.sbp)>>,
           <<"spo2_drop", 10 * Max(0, 95 - p.spo2)>>,
           <<"rr_excess", 10 * Max(0, p.rr - 18)>>,
           <<"temp_excess", Max(0, p.temp - 375)>>,
           <<"gcs_drop", 10 * Max(0, 15 - g)>>,
           <<"chest_pain", 10 * BoolInt(p.chest_pain)>>,
           <<"dyspnea", 10 * BoolInt(p.dyspnea)>>,
           <<"trauma", 10 * BoolInt(p.trauma)>>,
           <<"pain_hi", 10 * BoolInt(p.pain_level >= 7)>>,
           <<"onset_sudden", 10 * BoolInt(p.onset = "Dot ngot")>>,
           <<"worsening", 10 * BoolInt(p.progression = "Nang dan")>>,
           <<"fast_stroke", 10 * BoolInt(p.fast_stroke)>>,
           <<"bleeding", 10 * BoolInt(p.bleeding)>>,
           <<"abdominal_pain", 10 * BoolInt(p.abdominal_pain)>>,
           <<"pregnancy", 10 * BoolInt(p.pregnancy)>>,
           <<"infection", 10 * BoolInt(p.infection_suspected)>>,
           <<"anaphylaxis", 10 * BoolInt(p.anaphylaxis)>>,
           <<"poisoning", 10 * BoolInt(p.poisoning_overdose)>> >>

\* the weights of ensemble_predict_with_explain, in thousandths
base ==
    [b0 |-> -7200, age |-> 10, hr_excess |-> 20, sbp_drop |-> 50,
     spo2_drop |-> 120, rr_excess |-> 30, temp_excess |-> 400, gcs_drop |-> 550,
     chest_pain |-> 250, dyspnea |-> 550, trauma |-> 350, pain_hi |-> 150,
     onset_sudden |-> 120, worsening |-> 180, fast_stroke |-> 800,
     bleeding |-> 600, abdominal_pain |-> 250, pregnancy |-> 300,
     infection |-> 450, anaphylaxis |-> 1200, poisoning |-> 550]

\* The generator.  np.random.default_rng(seed) is a fresh generator whose
\* stream is a function of the seed alone; every draw consumes one position
\* of it.  The numbers numpy yields are not part of the repository: the
\* stream is represented by a fixed table of standard-normal quantiles (in
\* hundredths) indexed by a hash of (seed, position).
NormalQuantiles ==
    <<-186, -132, -101, -78, -58, -40, -24, -8, 8, 24, 40, 58, 78, 101, 132, 186>>

StdNormal(seed, i) ==
    NormalQuantiles[1 + ((((seed + i) * 1103 + 12345) \div 7) % 16)]

default_rng_shared(seed) == [seed |-> seed, pos |-> Len(logs)]

default_rng(seed) == [seed |-> seed, pos |-> 0]

\* the i-th draw from rng of rng.normal(0, scale), scale in hundredths:
\* result in 1e-4
rng_normal(rng, i, scale) == scale * StdNormal(rng.seed, rng.pos + i)

RECURSIVE SumTo(_, _)
SumTo(f, n) == IF n = 0 THEN 0 ELSE f[n] + SumTo(f, n - 1)

\* z of ensemble member m (0-based), in 1e-7: one draw for the intercept,
\* then one per feature in dict order
member_z_subtracts(x, rng, m) ==
    LET off == m * (1 + Len(x))
        terms == [j \in 1..Len(x) |->
                    base[x[j][1]]
                    * ((10000 + rng_normal(rng, off + j, 10)) \div 10)
                    * x[j][2]]
    IN  base.b0 * 10000 + 1000 * rng_normal(rng, off, 30) - SumTo(terms, Len(x))

member_z(x, rng, m) ==
    LET off == m * (1 + Len(x))
        terms == [j \in 1..Len(x) |->
                    base[x[j][1]]
                    * ((10000 + rng_normal(rng, off + j, 10)) \div 10)
                    * x[j][2]]
    IN  base.b0 * 10000 + 1000 * rng_normal(rng, off, 30) + SumTo(terms, Len(x))

RECURSIVE ISqrtIn(_, _, _)
ISqrtIn(v, lo, hi) ==
    IF lo >= hi THEN lo
    ELSE LET mid == (lo + hi + 1) \div 2
         IN  IF mid * mid <= v THEN ISqrtIn(v, mid, hi) ELSE ISqrtIn(v, lo, mid - 1)

ISqrt(v) == ISqrtIn(v, 0, 10000)

\* sorted(contrib.items(), key=abs value, reverse=True): a stable sort
RECURSIVE InsertByAbs(_, _, _)
InsertByAbs(t, e, i) ==
    IF i > Len(t) THEN Append(t, e)
    ELSE IF Abs(t[i][2]) < Abs(e[2])
    THEN SubSeq(t, 1, i - 1) \o <<e>> \o SubSeq(t, i, Len(t))
    ELSE InsertByAbs(t, e, i + 1)

RECURSIVE SortByAbsDesc(_, _)
SortByAbsDesc(s, n) ==
    IF n = 0 THEN <<>> ELSE InsertByAbs(SortByAbsDesc(s, n - 1), s[n], 1)

ensemble_predict_with_explain(p) ==
    LET x == features(p)
        rng == default_rng(42)
        preds == [m \in 1..25 |-> sigmoid(member_z(x, rng, m - 1))]
        mean_r == SumTo(preds, 25) \div 25
        sq == [m \in 1..25 |-> (preds[m] - mean_r) * (preds[m] - mean_r)]
        std_u == ISqrt(SumTo(sq, 25) \div (25 - 1))
        contrib == [j \in 1..Len(x) |-> <<x[j][1], base[x[j][1]] * x[j][2]>>]
        contrib_sorted == SortByAbsDesc(contrib, Len(contrib))
    IN  [risk |-> mean_r, u |-> std_u, contrib_sorted |-> contrib_sorted,
         preds |-> preds]

uncertainty_level(u) ==
    IF u >= 2000 THEN "CAO" ELSE IF u >= 1000 THEN "TRUNG BINH" ELSE "THAP"

triage_from_risk_exclusive(r) ==
    IF r >= 7000 THEN "RED" ELSE IF r > 3000 THEN "YELLOW" ELSE "GREEN"

triage_from_risk(r) ==
    IF r >= 7000 THEN "RED" ELSE IF r >= 3000 THEN "YELLOW" ELSE "GREEN"

\* ------------------------------------------------------------------------
\* ALERT POLICY (EWS / FLAGS)
\* ------------------------------------------------------------------------
should_alert_very_high_ews(flags, ews) == Len(flags) > 0 \/ ews >= 7

should_alert(flags, ews) == Len(flags) > 0 \/ ews >= 5

send_alert(message) == TRUE
\* ------------------------------------------------------------------------
\* DECISION POLICY (TRIAGE)
\* ------------------------------------------------------------------------
\* The return value (triage, color, note).  triage is the label: the emoji
\* it starts with and its words.  note is the rationale string, kept as its
\* literal head, the values formatted into it, and its literal tail.
Triage(emoji, words) == [emoji |-> emoji, words |-> words]
Note(head, args, tail) == [head |-> head, args |-> args, tail |-> tail]
Decision(triage, color, note) == [triage |-> triage, color |-> color, note |-> note]

\* 3) AI assist (lines 379-391): banding by risk, gated by uncertainty
ai_assist_no_downgrade(risk, u) ==
    LET base_label == triage_from_risk(risk)
    IN  IF base_label = "RED"
        THEN Decision(Triage("RED", "DO (CANH BAO)"), "#FF4B4B",
                 Note("Risk cao & Uncertainty thap -> canh bao manh.", <<>>, ""))
        ELSE IF base_label = "YELLOW"
        THEN Decision(Triage("YELLOW", "VANG (UU TIEN)"), "#FFA500",
                 Note("Risk trung binh -> theo doi sat/kham uu tien.", <<>>, ""))
        ELSE Decision(Triage("GREEN", "XANH (ON DINH)"), "#28A745",
                 Note("Risk thap -> it nguy kich (bac si quyet dinh cuoi).", <<>>, ""))

ai_assist(risk, u) ==
    LET base_label == triage_from_risk(risk)
    IN  IF base_label = "RED"
        THEN IF uncertainty_level(u) = "CAO"
             THEN Decision(Triage("YELLOW", "VANG (REVIEW)"), "#FFA500",
                      Note("Risk cao nhung Uncertainty CAO -> can bac si review.",
                           <<>>, ""))
             ELSE Decision(Triage("RED", "DO (CANH BAO)"), "#FF4B4B",
                      Note("Risk cao & Uncertainty thap -> canh bao manh.",
                           <<>>, ""))
        ELSE IF base_label = "YELLOW"
        THEN IF uncertainty_level(u) = "CAO"
             THEN Decision(Triage("YELLOW", "VANG (REVIEW)"), "#FFA500",
                      Note("Vung xam + Uncertainty CAO -> do lai vitals/bo sung ngu canh.",
                           <<>>, ""))
             ELSE Decision(Triage("YELLOW", "VANG (UU TIEN)"), "#FFA500",
                      Note("Risk trung binh -> theo doi sat/kham uu tien.",
                           <<>>, ""))
        ELSE Decision(Triage("GREEN", "XANH (ON DINH)"), "#28A745",
                 Note("Risk thap -> it nguy kich (bac si quyet dinh cuoi).",
                      <<>>, ""))

\* the symptom/score rule of lines 365-377, then the fall through to 3)
symptom_priority_silent(ews, risk, u, p) ==
    IF \/ ews >= 3
       \/ p.chest_pain
       \/ p.pain_level >= 7
       \/ p.fast_stroke
       \/ p.anaphylaxis
       \/ p.bleeding
       \/ p.poisoning_overdose
    THEN Decision(Triage("YELLOW", "VANG (UU TIEN)"), "#FFA500",
                  Note("Uu tien theo trieu chung/diem: EWS=", <<ews>>, "."))
    ELSE ai_assist(risk, u)

symptom_priority_no_bleeding(ews, risk, u, p) ==
    IF \/ ews >= 3
       \/ p.chest_pain
       \/ p.pain_level >= 7
       \/ p.fast_stroke
       \/ p.anaphylaxis
       \/ p.poisoning_overdose
    THEN Decision(Triage("YELLOW", "VANG (UU TIEN)"), "#FFA500",
                  Note("Uu tien theo trieu chung/diem: EWS=", <<ews>>,
                       IF uncertainty_level(u) = "CAO"
                       THEN ". Uncertainty CAO -> can bac si xac nhan/do lai."
                       ELSE "."))
    ELSE ai_assist(risk, u)

symptom_priority(ews, risk, u, p) ==
    IF \/ ews >= 3
       \/ p.chest_pain
       \/ p.pain_level >= 7
       \/ p.fast_stroke
       \/ p.anaphylaxis
       \/ p.bleeding
       \/ p.poisoning_overdose
    THEN Decision(Triage("YELLOW", "VANG (UU TIEN)"), "#FFA500",
                  Note("Uu tien theo trieu chung/diem: EWS=", <<ews>>,
                       IF uncertainty_level(u) = "CAO"
                       THEN ". Uncertainty CAO -> can bac si xac nhan/do lai."
                       ELSE "."))
    ELSE ai_assist(risk, u)

triage_decision_needs_two_flags(flags, ews, risk, u, p) ==
    IF Len(flags) > 1
    THEN Decision(Triage("RED", "DO (CAP CUU)"), "#FF4B4B",
                  Note("Luat an toan kich hoat: ", flags, ""))
    ELSE IF ews >= 5
    THEN Decision(Triage("RED", "DO (CAP CUU)"), "#FF4B4B",
                  Note("EWS cao (>=5): ", <<ews>>, ". Uu tien danh gia ngay."))
    ELSE symptom_priority(ews, risk, u, p)

triage_decision(flags, ews, risk, u, p) ==
    \* 1) Hard safety
    IF Len(flags) > 0
    THEN Decision(Triage("RED", "DO (CAP CUU)"), "#FF4B4B",
                  Note("Luat an toan kich hoat: ", flags, ""))
    \* 2) Clinical protocol (EWS + key symptoms)
    ELSE IF ews >= 5
    THEN Decision(Triage("RED", "DO (CAP CUU)"), "#FF4B4B",
                  Note("EWS cao (>=5): ", <<ews>>, ". Uu tien danh gia ngay."))
    ELSE symptom_priority(ews, risk, u, p)

\* ------------------------------------------------------------------------
\* DEPARTMENT RECOMMENDATION
\* ------------------------------------------------------------------------
recommend_department_respiratory_first(p, triage, flags) ==
    LET is_peds == p.age < 16
        g == gcs_total(p)
    IN  IF Len(flags) > 0 \/ triage.emoji = "RED"
        THEN IF is_peds
             THEN <<"Cap cuu/Hoi suc (uu tien) -> Nhi", "Nguy kich + tuoi nhi.">>
             ELSE IF p.anaphylaxis
             THEN <<"Cap cuu/Hoi suc (uu tien)", "Phan ve: uu tien ABC + phac do phan ve.">>
             ELSE IF p.fast_stroke \/ g <= 12
             THEN <<"Cap cuu/Hoi suc (uu tien) -> Than kinh", "Giam tri giac/FAST (+).">>
             ELSE IF p.bleeding
             THEN <<"Cap cuu/Hoi suc (uu tien) -> Ngoai / Tieu hoa", "Chay mau: uu tien hoi suc.">>
             ELSE IF p.trauma
             THEN <<"Cap cuu/Hoi suc (uu tien) -> Ngoai/Chan thuong", "Nguy kich + chan thuong.">>
             ELSE IF p.chest_pain
             THEN <<"Cap cuu/Hoi suc (uu tien) -> Tim mach", "Nguy kich + dau nguc.">>
             ELSE IF p.dyspnea \/ p.spo2 < 94
             THEN <<"Cap cuu/Hoi suc (uu tien) -> Ho hap", "Nguy kich + kho tho/SpO2 giam.">>
             ELSE IF p.poisoning_overdose
             THEN <<"Cap cuu/Hoi suc (uu tien) -> Chong doc / Noi", "Ngo doc/qua lieu.">>
             ELSE IF p.pregnancy
             THEN <<"Cap cuu/Hoi suc (uu tien) -> San", "Thai ky + nguy kich.">>
             ELSE <<"Cap cuu/Hoi suc (uu tien)", "Uu tien on dinh ABC truoc, sau do phan khoa.">>
        ELSE IF is_peds
        THEN <<"Nhi (hoac Cap cuu Nhi)", "Tuoi < 16.">>
        ELSE IF p.pregnancy
        THEN <<"San", "Thai ky.">>
        ELSE IF p.fast_stroke \/ g <= 13
        THEN <<"Than kinh", "Nghi dot quy/tri giac giam.">>
        ELSE IF p.trauma
        THEN <<"Ngoai/Chan thuong chinh hinh", "Chan thuong.">>
        ELSE IF p.bleeding
        THEN <<"Tieu hoa / Ngoai", "Chay mau.">>
        ELSE IF p.abdominal_pain
        THEN <<"Tieu hoa / Ngoai", "Dau bung cap.">>
        ELSE IF p.dyspnea \/ p.spo2 < 94
        THEN <<"Ho hap", "Kho tho/SpO2 giam.">>
        ELSE IF p.chest_pain
        THEN <<"Tim mach", "Dau nguc.">>
        ELSE IF p.infection_suspected
        THEN <<"Nhiem / Noi tong quat", "Nghi nhiem trung.">>
        ELSE IF p.poisoning_overdose
        THEN <<"Chong doc / Noi", "Ngo doc/qua lieu.">>
        ELSE <<"Cap cuu tong quat / Noi tong quat", "Khong co cum trieu chung noi bat.">>

recommend_department(p, triage, flags) ==
    LET is_peds == p.age < 16
        g == gcs_total(p)
    IN  IF Len(flags) > 0 \/ triage.emoji = "RED"
        THEN IF is_peds
             THEN <<"Cap cuu/Hoi suc (uu tien) -> Nhi", "Nguy kich + tuoi nhi.">>
             ELSE IF p.anaphylaxis
             THEN <<"Cap cuu/Hoi suc (uu tien)", "Phan ve: uu tien ABC + phac do phan ve.">>
             ELSE IF p.fast_stroke \/ g <= 12
             THEN <<"Cap cuu/Hoi suc (uu tien) -> Than kinh", "Giam tri giac/FAST (+).">>
             ELSE IF p.bleeding
             THEN <<"Cap cuu/Hoi suc (uu tien) -> Ngoai / Tieu hoa", "Chay mau: uu tien hoi suc.">>
             ELSE IF p.trauma
             THEN <<"Cap cuu/Hoi suc (uu tien) -> Ngoai/Chan thuong", "Nguy kich + chan thuong.">>
             ELSE IF p.chest_pain
             THEN <<"Cap cuu/Hoi suc (uu tien) -> Tim mach", "Nguy kich + dau nguc.">>
             ELSE IF p.dyspnea \/ p.spo2 < 94
             THEN <<"Cap cuu/Hoi suc (uu tien) -> Ho hap", "Nguy kich + kho tho/SpO2 giam.">>
             ELSE IF p.poisoning_overdose
             THEN <<"Cap cuu/Hoi suc (uu tien) -> Chong doc / Noi", "Ngo doc/qua lieu.">>
             ELSE IF p.pregnancy
             THEN <<"Cap cuu/Hoi suc (uu tien) -> San", "Thai ky + nguy kich.">>
             ELSE <<"Cap cuu/Hoi suc (uu tien)", "Uu tien on dinh ABC truoc, sau do phan khoa.">>
        ELSE IF is_peds
        THEN <<"Nhi (hoac Cap cuu Nhi)", "Tuoi < 16.">>
        ELSE IF p.pregnancy
        THEN <<"San", "Thai ky.">>
        ELSE IF p.fast_stroke \/ g <= 13
        THEN <<"Than kinh", "Nghi dot quy/tri giac giam.">>
        ELSE IF p.trauma
        THEN <<"Ngoai/Chan thuong chinh hinh", "Chan thuong.">>
        ELSE IF p.bleeding
        THEN <<"Tieu hoa / Ngoai", "Chay mau.">>
        ELSE IF p.abdominal_pain
        THEN <<"Tieu hoa / Ngoai", "Dau bung cap.">>
        ELSE IF p.chest_pain
        THEN <<"Tim mach", "Dau nguc.">>
        ELSE IF p.dyspnea \/ p.spo2 < 94
        THEN <<"Ho hap", "Kho tho/SpO2 giam.">>
        ELSE IF p.infection_suspected
        THEN <<"Nhiem / Noi tong quat", "Nghi nhiem trung.">>
        ELSE IF p.poisoning_overdose
        THEN <<"Chong doc / Noi", "Ngo doc/qua lieu.">>
        ELSE <<"Cap cuu tong quat / Noi tong quat", "Khong co cum trieu chung noi bat.">>

\* ------------------------------------------------------------------------
\* EXPLANATION HELPERS
\* ------------------------------------------------------------------------
RECURSIVE top_reasons_from(_, _, _)
top_reasons_from(items, i, out) ==
    IF i > Len(items) THEN out
    ELSE IF Abs(items[i][2]) < 500
    THEN top_reasons_from(items, i + 1, out)
    ELSE top_reasons_from(items, i + 1, Append(out, FEATURE_LABELS[items[i][1]]))

top_reasons(contrib_sorted, k) ==
    LET out == top_reasons_from(SubSeq(contrib_sorted, 1, Min(k, Len(contrib_sorted))),
                                1, <<>>)
    IN  IF Len(out) > 0 THEN out ELSE <<"Khong co yeu to noi bat">>
\* ------------------------------------------------------------------------
\* TREND UTILITIES / SESSION STATE
\* ------------------------------------------------------------------------
\* Python's None for last_case is the empty sequence; a case is <<case>>
NoCase == <<>>
Idle == [kind |-> "idle"]
NoCall == [fn |-> "none"]

\* a freshly opened session: no key is in st.session_state yet
init_state ==
    /\ logs = <<>>
    /\ last_case = NoCase
    /\ vitals_series = <<>>
    /\ enable_notify = FALSE

\* detect_worsening_trend(df): None is the empty sequence, a message is
\* <<reasons>>, the list joined after "Xu huong xau: "
detect_worsening_trend(df) ==
    IF Len(df) < 3 THEN <<>>
    ELSE LET last3 == SubSeq(df, Len(df) - 2, Len(df))
             ews_up == last3[3].EWS > last3[1].EWS
             spo2_down == last3[3].SpO2 < last3[1].SpO2
             sbp_down == last3[3].SBP < last3[1].SBP
             gcs_down == last3[3].GCS < last3[1].GCS
         IN  IF ews_up \/ spo2_down \/ sbp_down \/ gcs_down
             THEN LET r1 == Append1(ews_up, <<>>, "EWS tang")
                      r2 == Append1(spo2_down, r1, "SpO2 giam")
                      r3 == Append1(sbp_down, r2, "SBP giam")
                      r4 == Append1(gcs_down, r3, "GCS giam")
                  IN  <<r4>>
             ELSE <<>>

\* ------------------------------------------------------------------------
\* Records submitted in the model
\* ------------------------------------------------------------------------
\* records the form's widgets can produce (lines 614-644)
Hypoxic == [DefaultPatient EXCEPT !.spo2 = 85]
ChestPain == [DefaultPatient EXCEPT !.chest_pain = TRUE]
Tachy == [DefaultPatient EXCEPT !.hr = 120, !.sbp = 130, !.spo2 = 93]
Poisoned == [DefaultPatient EXCEPT !.poisoning_overdose = TRUE]
Septic == [DefaultPatient EXCEPT !.age = 80, !.temp = 420, !.gcs_v = 2, !.gcs_m = 3,
                                 !.dyspnea = TRUE, !.infection_suspected = TRUE,
                                 !.progression = "Nang dan"]
Drowsy == [DefaultPatient EXCEPT !.gcs_v = 3, !.gcs_m = 5, !.infection_suspected = TRUE,
                                 !.temp = 385, !.age = 70]

FormPatients == {DefaultPatient, Hypoxic, ChestPain, Tachy, Poisoned, Septic, Drowsy}

\* Patient records as validate_inputs can be handed them (a Patient holds
\* any int): the default record with one field on or just outside a hard
\* bound, and the records that only raise a soft advisory
GatePatients ==
    {[DefaultPatient EXCEPT !.age = x] : x \in {-1, 0, 120, 121}}
    \cup {[DefaultPatient EXCEPT !.hr = x] : x \in {19, 20, 250, 251}}
    \cup {[DefaultPatient EXCEPT !.sbp = x] : x \in {39, 40, 250, 251}}
    \cup {[DefaultPatient EXCEPT !.spo2 = x] : x \in {49, 50, 100, 101}}
    \cup {[DefaultPatient EXCEPT !.rr = x] : x \in {4, 5, 60, 61}}
    \cup {[DefaultPatient EXCEPT !.temp = x] : x \in {339, 340, 420, 421}}
    \cup {[DefaultPatient EXCEPT !.gcs_e = t[1], !.gcs_v = t[2], !.gcs_m = t[3]] :
            t \in {<<1, 1, 0>>, <<1, 1, 1>>, <<4, 5, 6>>, <<4, 5, 7>>}}
    \cup {[DefaultPatient EXCEPT !.spo2 = 87, !.dyspnea = d] : d \in BOOLEAN}
    \cup {[DefaultPatient EXCEPT !.pregnancy = TRUE, !.age = 5],
          [DefaultPatient EXCEPT !.spo2 = 87, !.age = 121]}

\* ------------------------------------------------------------------------
\* APP UI, tab 1: the submit handler
\* ------------------------------------------------------------------------
\* lines 665-684: everything computed from the validated record
Evaluate(p) ==
    LET g == gcs_total(p)
        si == calculate_shock_index(p.hr, p.sbp)
        ews == calculate_ews(p.hr, p.rr, p.sbp, p.temp, p.spo2)
        flags == red_flags(p, si, ews)
        esi == esi_level(p, flags, ews)
        ai == ensemble_predict_with_explain(p)
        d == triage_decision(flags, ews, ai.risk, ai.u, p)
        dept == recommend_department(p, d.triage, flags)
        alert == should_alert(flags, ews)
    IN  [g |-> g, si |-> si, ews |-> ews, flags |-> flags,
         esi |-> esi[1], esi_note |-> esi[2],
         risk |-> ai.risk, u |-> ai.u, contrib_sorted |-> ai.contrib_sorted,
         preds |-> ai.preds,
         triage |-> d.triage, color |-> d.color, note |-> d.note,
         dept |-> dept[1], dept_reason |-> dept[2], alert |-> alert]

\* Evaluate, tabulated over the records of the model that pass validation
Evaluated ==
    [p \in {q \in FormPatients \cup GatePatients : validate_inputs(q).ok} |->
        Evaluate(p)]

\* the entry appended to vitals_series; datetime.now() is the position of
\* the entry on the session's clock
VitalsEntry(p, e, now) ==
    [time |-> now, HR |-> p.hr, SBP |-> p.sbp, SpO2 |-> p.spo2, RR |-> p.rr,
     Temp |-> p.temp, GCS |-> e.g, EWS |-> e.ews, ESI |-> e.esi]

\* the log row; the input columns are kept together as the field p
Row(p, e, now) ==
    [time |-> now, p |-> p, GCS |-> e.g, EWS |-> e.ews, ShockIndex |-> e.si,
     ESI |-> e.esi, Risk |-> e.risk, Uncertainty |-> e.u,
     UncLevel |-> uncertainty_level(e.u), RedFlags |-> e.flags,
     ALERT |-> e.alert, triage |-> e.triage, dept |-> e.dept,
     dept_reason |-> e.dept_reason, note |-> e.note]

\* `if submit:` with the record p built from the form; cap bounds the
\* number of rows the model lets a session hold
Submit(p, cap) ==
    LET v == validate_inputs(p)
    IN  IF ~v.ok
        THEN \* st.stop(): nothing below line 663 runs
             /\ run' = [kind |-> "stopped", p |-> p, issues |-> v.issues]
             /\ UNCHANGED <<logs, vitals_series, last_case, enable_notify, call>>
        ELSE LET e == Evaluated[p]
                 now == Len(vitals_series) + 1
                 row == Row(p, e, now)
             IN  /\ Len(logs) < cap
                 /\ vitals_series' = Append(vitals_series, VitalsEntry(p, e, now))
                 /\ logs' = Append(logs, row)
                 /\ last_case' = <<[row |-> row, contrib_sorted |-> e.contrib_sorted,
                                    preds |-> e.preds]>>
                 /\ run' = [kind |-> "rendered", p |-> p, issues |-> v.issues,
                            estimator |-> "returned", row |-> row,
                            top |-> top_reasons(e.contrib_sorted, 7),
                            sent |-> e.alert /\ enable_notify /\ send_alert(row)]
                 /\ UNCHANGED <<enable_notify, call>>

\* The same handler when the call of line 674 raises (the fault the
\* specification's fallback scenario injects).  Nothing catches it: the
\* script run ends at line 674 with Streamlit's exception box, after the
\* scores, the flags and the ESI level were computed and before anything
\* is drawn or stored.
SubmitEstimatorRaises(p) ==
    LET v == validate_inputs(p)
        g == gcs_total(p)
        si == calculate_shock_index(p.hr, p.sbp)
        ews == calculate_ews(p.hr, p.rr, p.sbp, p.temp, p.spo2)
        flags == red_flags(p, si, ews)
    IN  /\ v.ok
        /\ run' = [kind |-> "exception", p |-> p, issues |-> v.issues,
                   estimator |-> "raised", ews |-> ews, flags |-> flags]
        /\ UNCHANGED <<logs, vitals_series, last_case, enable_notify, call>>

\* the sidebar checkbox (line 599): a rerun with no submission
ToggleNotify ==
    /\ enable_notify' = ~enable_notify
    /\ run' = Idle
    /\ UNCHANGED <<logs, vitals_series, last_case, call>>

Clear_keeps_last_case ==
    /\ Len(logs) > 0
    /\ logs' = <<>>
    /\ vitals_series' = <<>>
    /\ run' = Idle
    /\ UNCHANGED <<last_case, enable_notify, call>>

\* the clear button of tab 3 (lines 843-847), drawn only when logs exist
Clear ==
    /\ Len(logs) > 0
    /\ logs' = <<>>
    /\ vitals_series' = <<>>
    /\ last_case' = NoCase
    /\ run' = Idle
    /\ UNCHANGED <<enable_notify, call>>

\* ------------------------------------------------------------------------
\* APP UI, tab 2: the trend panel, drawn by every script run from the
\* series as tab 1 left it (the clear button reruns the script)
\* ------------------------------------------------------------------------
\* DataFrame.sort_values("time").reset_index(drop=True)
RECURSIVE InsertByTime(_, _, _)
InsertByTime(t, e, i) ==
    IF i > Len(t) THEN Append(t, e)
    ELSE IF e.time < t[i].time
    THEN SubSeq(t, 1, i - 1) \o <<e>> \o SubSeq(t, i, Len(t))
    ELSE InsertByTime(t, e, i + 1)

RECURSIVE sort_values_time(_, _)
sort_values_time(s, n) ==
    IF n = 0 THEN <<>> ELSE InsertByTime(sort_values_time(s, n - 1), s[n], 1)

tab2_trend ==
    IF Len(vitals_series) = 0
    THEN [shown |-> "info", msg |-> <<>>]
    ELSE LET tdf == sort_values_time(vitals_series, Len(vitals_series))
             msg == detect_worsening_trend(tdf)
         IN  IF msg # <<>>
             THEN [shown |-> "warning", msg |-> msg[1]]
             ELSE [shown |-> "success", msg |-> <<>>]

\* ------------------------------------------------------------------------
\* The session
\* ------------------------------------------------------------------------
Init == init_state /\ run = Idle /\ call = NoCall

Next ==
    \/ \E p \in FormPatients : Submit(p, MaxLogs)
    \/ ToggleNotify
    \/ Clear

Spec == Init /\ [][Next]_vars

\* the handler on any Patient record, in or out of the widgets' ranges
NextGate ==
    \/ \E p \in GatePatients : Submit(p, MaxGateLogs)
    \/ Clear

SpecGate == Init /\ [][NextGate]_vars

\* the session where the handler is also given records it rejects
SessionPatients ==
    {DefaultPatient, Hypoxic, Drowsy, [DefaultPatient EXCEPT !.age = 121],
     [DefaultPatient EXCEPT !.hr = 19]}

NextSession ==
    \/ \E p \in SessionPatients : Submit(p, MaxLogs)
    \/ ToggleNotify
    \/ Clear

SpecSession == Init /\ [][NextSession]_vars

\* the session with an estimator that may raise
NextFault ==
    \/ \E p \in FormPatients : Submit(p, MaxLogs)
    \/ \E p \in FormPatients : SubmitEstimatorRaises(p)
    \/ Clear

SpecFault == Init /\ [][NextFault]_vars
\* ------------------------------------------------------------------------
\* Direct calls of one function: the arguments are drawn at the start, the
\* step applies the function and keeps what it returned in call.ret
\* ------------------------------------------------------------------------
SessionIdle == init_state /\ run = Idle

\* --- calculate_ews on both sides of every band boundary ---
EwsCalls ==
    {[fn |-> "calculate_ews", hr |-> h, rr |-> r, sbp |-> b, temp |-> t,
      spo2 |-> o, done |-> FALSE, ret |-> <<>>] :
        h \in {20, 49, 50, 110, 111, 250}, r \in {5, 9, 10, 24, 25, 60},
        b \in {40, 89, 90, 180, 181, 250}, t \in {340, 354, 355, 385, 386, 420},
        o \in {50, 93, 94, 100}}

InitEws == SessionIdle /\ call \in EwsCalls

CallEws ==
    /\ call.fn = "calculate_ews" /\ ~call.done
    /\ call' = [call EXCEPT !.done = TRUE,
                  !.ret = <<calculate_ews(call.hr, call.rr, call.sbp, call.temp,
                                          call.spo2)>>]
    /\ UNCHANGED <<logs, vitals_series, last_case, enable_notify, run>>

SpecEws == InitEws /\ [][CallEws]_vars

\* --- triage_decision on records around every rule's threshold ---
\* vitals on both sides of the red-flag thresholds, no symptom ticked
VitalsFamily ==
    {[DefaultPatient EXCEPT !.gcs_e = t[1], !.gcs_v = t[2], !.gcs_m = t[3],
                            !.spo2 = o, !.sbp = b, !.hr = h, !.rr = r] :
        t \in {<<1, 1, 6>>, <<1, 2, 6>>, <<4, 5, 6>>}, o \in {89, 90},
        b \in {89, 100}, h \in {80, 105, 140}, r \in {18, 30}}

\* every combination of the symptoms the rules read, with normal vitals
SymptomFamily ==
    {[DefaultPatient EXCEPT !.anaphylaxis = a, !.fast_stroke = f, !.bleeding = b,
                            !.poisoning_overdose = o, !.chest_pain = c,
                            !.pain_level = l, !.gcs_m = m, !.hr = h] :
        a \in BOOLEAN, f \in BOOLEAN, b \in BOOLEAN, o \in BOOLEAN, c \in BOOLEAN,
        l \in {0, 6, 7}, m \in {3, 6}, h \in {80, 111}}

DecisionCalls ==
    {[fn |-> "triage_decision", p |-> p, ews |-> e, risk |-> r, u |-> u,
      flags |-> red_flags(p, calculate_shock_index(p.hr, p.sbp), e),
      done |-> FALSE, ret |-> <<>>] :
        p \in VitalsFamily \cup SymptomFamily, e \in {0, 2, 3, 4, 5, 7},
        r \in {0, 2999, 3000, 6999, 7000, 10000}, u \in {0, 1000, 1999, 2000, 5000}}

InitDecision == SessionIdle /\ call \in DecisionCalls

CallTriageDecision ==
    /\ call.fn = "triage_decision" /\ ~call.done
    /\ call' = [call EXCEPT !.done = TRUE,
                  !.ret = <<triage_decision(call.flags, call.ews, call.risk,
                                            call.u, call.p)>>]
    /\ UNCHANGED <<logs, vitals_series, last_case, enable_notify, run>>

SpecDecision == InitDecision /\ [][CallTriageDecision]_vars

\* --- ensemble_predict_with_explain on a record and on the same record
\* with one field made more abnormal ---
RiskBases ==
    {[DefaultPatient EXCEPT !.spo2 = o, !.sbp = b, !.hr = h, !.rr = r,
                            !.gcs_m = m, !.temp = t] :
        o \in {98, 95, 90}, b \in {120, 98}, h \in {80, 95}, r \in {16, 20},
        m \in {6, 4}, t \in {366, 380}}

Worsenings ==
    ({"spo2", "sbp", "hr", "rr", "gcs", "temp"} \X {1, 12})
    \cup ({"chest_pain", "dyspnea", "trauma", "pain", "onset", "progression",
           "fast_stroke", "bleeding", "abdominal_pain", "pregnancy",
           "infection_suspected", "anaphylaxis", "poisoning_overdose"} \X {1})

Worsen(p, w) ==
    CASE w[1] = "spo2" -> [p EXCEPT !.spo2 = p.spo2 - w[2]]
      [] w[1] = "sbp" -> [p EXCEPT !.sbp = p.sbp - w[2]]
      [] w[1] = "hr" -> [p EXCEPT !.hr = p.hr + w[2]]
      [] w[1] = "rr" -> [p EXCEPT !.rr = p.rr + w[2]]
      [] w[1] = "gcs" -> [p EXCEPT !.gcs_m = Max(1, p.gcs_m - w[2])]
      [] w[1] = "temp" -> [p EXCEPT !.temp = p.temp + w[2]]
      [] w[1] = "chest_pain" -> [p EXCEPT !.chest_pain = TRUE]
      [] w[1] = "dyspnea" -> [p EXCEPT !.dyspnea = TRUE]
      [] w[1] = "trauma" -> [p EXCEPT !.trauma = TRUE]
      [] w[1] = "pain" -> [p EXCEPT !.pain_level = 7]
      [] w[1] = "onset" -> [p EXCEPT !.onset = "Dot ngot"]
      [] w[1] = "progression" -> [p EXCEPT !.progression = "Nang dan"]
      [] w[1] = "fast_stroke" -> [p EXCEPT !.fast_stroke = TRUE]
      [] w[1] = "bleeding" -> [p EXCEPT !.bleeding = TRUE]
      [] w[1] = "abdominal_pain" -> [p EXCEPT !.abdominal_pain = TRUE]
      [] w[1] = "pregnancy" -> [p EXCEPT !.pregnancy = TRUE]
      [] w[1] = "infection_suspected" -> [p EXCEPT !.infection_suspected = TRUE]
      [] w[1] = "anaphylaxis" -> [p EXCEPT !.anaphylaxis = TRUE]
      [] w[1] = "poisoning_overdose" -> [p EXCEPT !.poisoning_overdose = TRUE]

RiskCalls ==
    {[fn |-> "ensemble_predict_with_explain", p |-> p, w |-> w, q |-> Worsen(p, w),
      done |-> FALSE, ret |-> <<>>] : p \in RiskBases, w \in Worsenings}

InitRisk == SessionIdle /\ call \in RiskCalls

CallEstimator ==
    /\ call.fn = "ensemble_predict_with_explain" /\ ~call.done
    /\ call' = [call EXCEPT !.done = TRUE,
                  !.ret = <<ensemble_predict_with_explain(call.p),
                            ensemble_predict_with_explain(call.q)>>]
    /\ UNCHANGED <<logs, vitals_series, last_case, enable_notify, run>>

SpecRisk == InitRisk /\ [][CallEstimator]_vars
\* --- red_flags on records around every rule's threshold, with the two
\* scores it is handed on both sides of theirs ---
FlagCalls ==
    {[fn |-> "red_flags", p |-> p, si |-> s, ews |-> e, done |-> FALSE,
      ret |-> <<>>] :
        p \in VitalsFamily \cup SymptomFamily, s \in {67, 100, 101},
        e \in {0, 6, 7}}

InitFlags == SessionIdle /\ call \in FlagCalls

CallRedFlags ==
    /\ call.fn = "red_flags" /\ ~call.done
    /\ call' = [call EXCEPT !.done = TRUE,
                  !.ret = <<red_flags(call.p, call.si, call.ews)>>]
    /\ UNCHANGED <<logs, vitals_series, last_case, enable_notify, run>>

SpecFlags == InitFlags /\ [][CallRedFlags]_vars

\* --- recommend_department on every combination of what its cascade
\* reads, with the flags red_flags computes and the label triage_decision
\* returns for a low and for a high risk ---
RouteFamily ==
    {[DefaultPatient EXCEPT !.age = a, !.pregnancy = t[1], !.fast_stroke = t[2],
                            !.gcs_m = m, !.trauma = t[3], !.bleeding = t[4],
                            !.abdominal_pain = t[5], !.chest_pain = t[6],
                            !.dyspnea = t[7], !.spo2 = o,
                            !.infection_suspected = t[8],
                            !.poisoning_overdose = t[9]] :
        a \in {15, 16}, m \in {4, 5}, o \in {93, 94},
        t \in [1..9 -> BOOLEAN]}

RouteCall(p, risk, u) ==
    LET ews == calculate_ews(p.hr, p.rr, p.sbp, p.temp, p.spo2)
        flags == red_flags(p, calculate_shock_index(p.hr, p.sbp), ews)
    IN  [fn |-> "recommend_department", p |-> p,
         triage |-> triage_decision(flags, ews, risk, u, p).triage,
         flags |-> flags, done |-> FALSE, ret |-> <<>>]

RouteCalls == {RouteCall(p, r, 500) : p \in RouteFamily, r \in {1000, 9000}}

InitRoute == SessionIdle /\ call \in RouteCalls

CallRecommendDepartment ==
    /\ call.fn = "recommend_department" /\ ~call.done
    /\ call' = [call EXCEPT !.done = TRUE,
                  !.ret = recommend_department(call.p, call.triage, call.flags)]
    /\ UNCHANGED <<logs, vitals_series, last_case, enable_notify, run>>

SpecRoute == InitRoute /\ [][CallRecommendDepartment]_vars

\* --- top_reasons on the ranked contributions of records whose
\* contributions lie on both sides of the threshold, for several k ---
ReasonFamily ==
    {[DefaultPatient EXCEPT !.age = a, !.sbp = b, !.hr = h, !.chest_pain = c,
                            !.pain_level = l] :
        a \in {0, 4, 5, 6, 35}, b \in {98, 99, 100, 120}, h \in {90, 92, 95},
        c \in BOOLEAN, l \in {0, 7}}

ReasonCalls ==
    {[fn |-> "top_reasons",
      contrib_sorted |-> ensemble_predict_with_explain(p).contrib_sorted,
      k |-> k, done |-> FALSE, ret |-> <<>>] :
        p \in ReasonFamily, k \in {0, 1, 2, 3, 7}}

InitReasons == SessionIdle /\ call \in ReasonCalls

CallTopReasons ==
    /\ call.fn = "top_reasons" /\ ~call.done
    /\ call' = [call EXCEPT !.done = TRUE,
                  !.ret = top_reasons(call.contrib_sorted, call.k)]
    /\ UNCHANGED <<logs, vitals_series, last_case, enable_notify, run>>

SpecReasons == InitReasons /\ [][CallTopReasons]_vars

\* --- the handler's pipeline (lines 659-684) on one record, and
\* calculate_shock_index on its own with any int for sbp ---
\* vitals on both sides of the flag thresholds and of the EWS bands
AlertFamily ==
    {[DefaultPatient EXCEPT !.spo2 = o, !.hr = h, !.sbp = b, !.rr = r,
                            !.temp = t, !.bleeding = bl] :
        o \in {89, 93, 98}, h \in {80, 111, 140}, b \in {89, 95, 120},
        r \in {18, 25, 30}, t \in {366, 390}, bl \in BOOLEAN}

\* every systolic pressure of the valid range with a heart rate equal to
\* it or above it by 1, 2, 3 or 60, where that is still a valid heart rate
ShockFamily ==
    {[DefaultPatient EXCEPT !.sbp = t[1], !.hr = t[1] + t[2]] :
        t \in {u \in (40..250) \X {0, 1, 2, 3, 60} : u[1] + u[2] <= 250}}

EvaluateCalls ==
    {[fn |-> "evaluate", p |-> p, done |-> FALSE, ret |-> <<>>] :
        p \in AlertFamily \cup ShockFamily}
    \cup {[fn |-> "calculate_shock_index", hr |-> h, sbp |-> b, done |-> FALSE,
           ret |-> <<>>] : h \in {20, 80, 250}, b \in {-1, 0, 1, 40}}

InitEvaluate == SessionIdle /\ call \in EvaluateCalls

CallEvaluate ==
    /\ call.fn = "evaluate" /\ ~call.done
    /\ validate_inputs(call.p).ok
    /\ call' = [call EXCEPT !.done = TRUE, !.ret = <<Evaluate(call.p)>>]
    /\ UNCHANGED <<logs, vitals_series, last_case, enable_notify, run>>

CallShockIndex ==
    /\ call.fn = "calculate_shock_index" /\ ~call.done
    /\ call' = [call EXCEPT !.done = TRUE,
                  !.ret = <<calculate_shock_index(call.hr, call.sbp)>>]
    /\ UNCHANGED <<logs, vitals_series, last_case, enable_notify, run>>

NextEvaluate == CallEvaluate \/ CallShockIndex

SpecEvaluate == InitEvaluate /\ [][NextEvaluate]_vars

\* ========================================================================
\* Properties
\* ========================================================================
\* the call of triage_decision has returned
Decided == call.fn = "triage_decision" /\ call.done
Outcome == call.ret[1]

\* the rule set of section 4.2, stated on the record and the scores
RedFlagHolds(p, si, ews) ==
    \/ gcs_total(p) <= 8
    \/ p.spo2 < 90
    \/ p.sbp < 90
    \/ si > 100
    \/ p.rr >= 30
    \/ p.hr >= 140
    \/ ews >= 7
    \/ p.anaphylaxis
    \/ p.fast_stroke
    \/ (p.bleeding /\ (p.sbp < 100 \/ p.hr > 110))
    \/ (p.poisoning_overdose /\ gcs_total(p) <= 12)

\* the outcome asks for a clinician's review: the label says REVIEW, or the
\* rationale ends with the request to confirm / measure again
ReviewMarked(d) ==
    \/ d.triage.words = "VANG (REVIEW)"
    \/ d.note.tail = ". Uncertainty CAO -> can bac si xac nhan/do lai."

ReviewNote(d) ==
    \/ d.note.tail = ". Uncertainty CAO -> can bac si xac nhan/do lai."
    \/ d.note.head = "Risk cao nhung Uncertainty CAO -> can bac si review."
    \/ d.note.head = "Vung xam + Uncertainty CAO -> do lai vitals/bo sung ngu canh."

\* the outcome was produced by the symptom/score rule (stage 3)
AtStageThree(d) == d.note.head = "Uu tien theo trieu chung/diem: EWS="

\* C1 -- Red-flag dominance: whenever at least one red-flag predicate holds
\* of the record, triage_decision returns the red (Critical) label, whatever
\* EWS, risk and uncertainty it is given.
RedFlagDominance ==
    Decided =>
        (RedFlagHolds(call.p, calculate_shock_index(call.p.hr, call.p.sbp), call.ews)
            => /\ Outcome.triage.emoji = "RED"
               /\ Outcome.triage.words = "DO (CAP CUU)")

RedFlagDominanceWitness ==
    /\ Decided
    /\ Len(call.flags) = 1
    /\ call.risk = 0 /\ call.u = 5000 /\ call.ews = 0
    /\ Outcome.triage.emoji = "RED"

\* C2 as stated -- every record with risk >= 0.70 and u >= 0.20 ends
\* Priority with review required, never Critical.
UncertaintyDowngradeEveryRecord ==
    (Decided /\ call.risk >= 7000 /\ call.u >= 2000)
        => (Outcome.triage.emoji = "YELLOW" /\ ReviewMarked(Outcome))

\* C2 amended -- every record with no red flag and EWS < 5, with
\* risk >= 0.70 and u >= 0.20, ends Priority with review required, never
\* Critical.
UncertaintyDowngrade ==
    (Decided /\ Len(call.flags) = 0 /\ call.ews < 5
             /\ call.risk >= 7000 /\ call.u >= 2000)
        => (Outcome.triage.emoji = "YELLOW" /\ ReviewMarked(Outcome))

UncertaintyDowngradeWitness ==
    /\ Decided
    /\ call.p = DefaultPatient /\ call.ews = 0
    /\ call.risk = 7000 /\ call.u = 2000
    /\ Outcome.triage.words = "VANG (REVIEW)"

\* C3 -- EWS correctness: calculate_ews is the sum of the five independent
\* band points, with strict boundaries, and lies in 0..10.
EwsPerBandSum ==
    (call.fn = "calculate_ews" /\ call.done) =>
        LET hrPts == IF call.hr > 110 \/ call.hr < 50 THEN 2 ELSE 0
            rrPts == IF call.rr > 24 \/ call.rr < 10 THEN 2 ELSE 0
            sbpPts == IF call.sbp < 90 \/ call.sbp > 180 THEN 2 ELSE 0
            tempPts == IF call.temp > 385 \/ call.temp < 355 THEN 1 ELSE 0
            spo2Pts == IF call.spo2 < 94 THEN 3 ELSE 0
        IN  /\ call.ret[1] = hrPts + rrPts + sbpPts + tempPts + spo2Pts
            /\ call.ret[1] \in 0..10
            /\ (call.hr = 110 => hrPts = 0)
            /\ (call.hr = 111 => hrPts = 2)
            /\ (call.spo2 = 94 => spo2Pts = 0)
            /\ (call.spo2 = 93 => spo2Pts = 3)

EwsPerBandSumWitness ==
    /\ call.fn = "calculate_ews" /\ call.done
    /\ call.hr = 110 /\ call.spo2 = 93 /\ call.rr = 25
    /\ call.sbp = 90 /\ call.temp = 386
    /\ call.ret[1] = 6

\* C4 -- Validation gate: a submission is evaluated (scores, flags, risk and
\* decision in a row appended to the logs) exactly when no hard range bound
\* is violated; on a hard violation nothing is scored and the session is
\* left as it was; a soft advisory alone never stops the evaluation.
HardRangeViolated(p) ==
    \/ p.age < 0 \/ p.age > 120
    \/ p.hr < 20 \/ p.hr > 250
    \/ p.sbp < 40 \/ p.sbp > 250
    \/ p.spo2 < 50 \/ p.spo2 > 100
    \/ p.rr < 5 \/ p.rr > 60
    \/ p.temp < 340 \/ p.temp > 420
    \/ gcs_total(p) < 3 \/ gcs_total(p) > 15

ValidationGate ==
    [][(run'.kind \in {"stopped", "rendered"} /\ run' # run) =>
          IF HardRangeViolated(run'.p)
          THEN /\ run'.kind = "stopped"
               /\ UNCHANGED <<logs, vitals_series, last_case>>
          ELSE /\ run'.kind = "rendered"
               /\ logs' = Append(logs, run'.row)
               /\ Len(vitals_series') = Len(vitals_series) + 1
               /\ run'.row.p = run'.p
               /\ run'.row.EWS = calculate_ews(run'.p.hr, run'.p.rr, run'.p.sbp,
                                               run'.p.temp, run'.p.spo2)
               /\ run'.row.triage.emoji \in {"RED", "YELLOW", "GREEN"}]_vars

\* age 121 is turned away after age 120 and a record with only the soft
\* SpO2 advisory were evaluated
ValidationGateWitness ==
    /\ run.kind = "stopped" /\ run.p.age = 121
    /\ Len(logs) = 2
    /\ logs[1].p.age = 120
    /\ logs[2].p.spo2 = 87 /\ ~logs[2].p.dyspnea

\* C5 -- Fallback on estimator failure: when the risk estimator raises, the
\* run still ends with an outcome drawn from the red flags and the EWS.
EstimatorFailureStillYieldsOutcome ==
    (run.kind \in {"rendered", "exception"} /\ run.estimator = "raised")
        => run.kind = "rendered"

\* C6 -- Determinism: every evaluation of a record yields the risk,
\* uncertainty, contribution ranking, flags, label, rationale and
\* department that every earlier evaluation of the same record in the
\* session yielded, whatever was submitted, toggled or cleared in between.
SameOutcome(r1, r2) ==
    /\ r1.Risk = r2.Risk /\ r1.Uncertainty = r2.Uncertainty
    /\ r1.RedFlags = r2.RedFlags
    /\ r1.triage = r2.triage
    /\ r1.note = r2.note
    /\ r1.dept = r2.dept /\ r1.dept_reason = r2.dept_reason

PriorityHighUncertaintyReview ==
    (Decided /\ Outcome.triage.emoji = "YELLOW" /\ call.u >= 2000)
        => (ReviewMarked(Outcome) /\ ReviewNote(Outcome))

PriorityHighUncertaintyReviewWitness ==
    /\ Decided
    /\ AtStageThree(Outcome)
    /\ call.u = 2000
    /\ call.p.chest_pain /\ call.ews = 0
    /\ ReviewMarked(Outcome)

\* C8 as stated -- with no red flag and EWS < 5, stage 3 answers exactly
\* when EWS >= 3 or one of chest pain, pain level >= 7, stroke flag,
\* anaphylaxis flag, bleeding flag holds; otherwise risk and uncertainty
\* alone decide.
BandingLabel(risk, u) ==
    IF risk >= 7000 THEN (IF u >= 2000 THEN "YELLOW" ELSE "RED")
    ELSE IF risk >= 3000 THEN "YELLOW" ELSE "GREEN"

ListedTrigger(p, ews) ==
    ews >= 3 \/ p.chest_pain \/ p.pain_level >= 7 \/ p.fast_stroke
             \/ p.anaphylaxis \/ p.bleeding

StageThreeListedTriggers ==
    (Decided /\ Len(call.flags) = 0 /\ call.ews < 5) =>
        /\ AtStageThree(Outcome) <=> ListedTrigger(call.p, call.ews)
        /\ ~ListedTrigger(call.p, call.ews) =>
              Outcome.triage.emoji = BandingLabel(call.risk, call.u)

\* C8 amended -- the same with the poisoning/overdose flag added to the
\* trigger set.
StageThreeTriggers ==
    (Decided /\ Len(call.flags) = 0 /\ call.ews < 5) =>
        LET trigger == ListedTrigger(call.p, call.ews) \/ call.p.poisoning_overdose
        IN  /\ AtStageThree(Outcome) <=> trigger
            /\ AtStageThree(Outcome) => Outcome.triage.emoji = "YELLOW"
            /\ ~trigger => Outcome.triage.emoji = BandingLabel(call.risk, call.u)

StageThreeTriggersWitness ==
    /\ Decided
    /\ Len(call.flags) = 0 /\ call.ews = 0
    /\ call.p.poisoning_overdose /\ ~ListedTrigger(call.p, call.ews)
    /\ call.risk = 0
    /\ AtStageThree(Outcome)

\* C9 -- Stable is never escalated by uncertainty: a record that reaches
\* the risk bands with risk < 0.30 is Stable for every uncertainty, and
\* no other record is.
ReachesBanding(c) ==
    /\ Len(c.flags) = 0
    /\ c.ews < 3
    /\ ~(c.p.chest_pain \/ c.p.pain_level >= 7 \/ c.p.fast_stroke
         \/ c.p.anaphylaxis \/ c.p.bleeding \/ c.p.poisoning_overdose)

StableNeverEscalated ==
    Decided =>
        (Outcome.triage.emoji = "GREEN" <=> (ReachesBanding(call) /\ call.risk < 3000))

StableNeverEscalatedWitness ==
    /\ Decided
    /\ ReachesBanding(call) /\ call.risk = 2999 /\ call.u = 5000
    /\ Outcome.triage.words = "XANH (ON DINH)"

\* C10 -- Monotonicity of risk: with every other field fixed, a lower SpO2,
\* SBP or GCS, a higher HR, RR or temperature, or one more symptom set
\* never lowers the risk, nor the prediction of any ensemble member.
RiskMonotone ==
    (call.fn = "ensemble_predict_with_explain" /\ call.done) =>
        /\ call.ret[2].risk >= call.ret[1].risk
        /\ \A m \in 1..25 : call.ret[2].preds[m] >= call.ret[1].preds[m]

RiskMonotoneWitness ==
    /\ call.fn = "ensemble_predict_with_explain" /\ call.done
    /\ call.w = <<"spo2", 12>>
    /\ call.p.spo2 = 95
    /\ call.ret[2].risk > call.ret[1].risk

\* the rules of red_flags: the text each one reports and its predicate
FlagRules(p, si, ews) ==
    {<<"Hon me nang (GCS <= 8)", gcs_total(p) <= 8>>,
     <<"Suy ho hap nang (SpO2 < 90%)", p.spo2 < 90>>,
     <<"Soc / tut huyet ap (SBP < 90)", p.sbp < 90>>,
     <<"Shock Index nguy hiem", si > 100>>,
     <<"Tho nhanh nang (RR >= 30)", p.rr >= 30>>,
     <<"Mach nhanh nang (HR >= 140)", p.hr >= 140>>,
     <<"EWS rat cao (>= 7)", ews >= 7>>,
     <<"Nghi soc phan ve", p.anaphylaxis>>,
     <<"FAST duong tinh (nghi dot quy)", p.fast_stroke>>,
     <<"Chay mau + huyet dong xau", p.bleeding /\ (p.sbp < 100 \/ p.hr > 110)>>,
     <<"Nghi ngo doc + giam tri giac", p.poisoning_overdose /\ gcs_total(p) <= 12>>}

\* how many entries of the flag list carry the text
Reported(flags, text) == Cardinality({i \in 1..Len(flags) : flags[i][1] = text})

\* C11 -- Red-flag completeness: red_flags returns exactly one description
\* for every rule whose predicate holds and none for a rule whose predicate
\* does not hold, so the list is non-empty if and only if at least one of
\* the eleven conditions holds.
RedFlagCompleteness ==
    (call.fn = "red_flags" /\ call.done) =>
        LET flags == call.ret[1]
            rules == FlagRules(call.p, call.si, call.ews)
        IN  /\ \A r \in rules : Reported(flags, r[1]) = (IF r[2] THEN 1 ELSE 0)
            /\ Len(flags) = Cardinality({r \in rules : r[2]})
            /\ (Len(flags) > 0) = RedFlagHolds(call.p, call.si, call.ews)

RedFlagCompletenessWitness ==
    /\ call.fn = "red_flags" /\ call.done
    /\ call.p.spo2 = 89 /\ call.p.sbp = 89 /\ call.p.rr = 30 /\ call.p.hr = 80
    /\ gcs_total(call.p) = 15
    /\ call.si = 100 /\ call.ews = 7
    /\ Len(call.ret[1]) = 4

\* recommend_department has returned for a case that is neither Critical
\* nor flagged
RoutedNonCritical ==
    /\ call.fn = "recommend_department" /\ call.done
    /\ Len(call.flags) = 0 /\ call.triage.emoji # "RED"

\* the destination of the first pair of the cascade whose predicate holds
RECURSIVE FirstMatch(_, _)
FirstMatch(cascade, i) ==
    IF cascade[i][1] THEN cascade[i][2] ELSE FirstMatch(cascade, i + 1)

Neuro(p) == p.fast_stroke \/ gcs_total(p) <= 13

\* C12 as stated -- the non-critical destination is the first match of
\* pediatric -> pregnancy -> neuro -> trauma -> cardiac -> respiratory ->
\* infection -> default, so chest pain without a higher step goes to
\* cardiology whatever else is set.
RoutingListedOrder ==
    RoutedNonCritical =>
        LET p == call.p
        IN  call.ret[1] = FirstMatch(
                << <<p.age < 16, "Nhi (hoac Cap cuu Nhi)">>,
                   <<p.pregnancy, "San">>,
                   <<Neuro(p), "Than kinh">>,
                   <<p.trauma, "Ngoai/Chan thuong chinh hinh">>,
                   <<p.chest_pain, "Tim mach">>,
                   <<p.dyspnea \/ p.spo2 < 94, "Ho hap">>,
                   <<p.infection_suspected, "Nhiem / Noi tong quat">>,
                   <<TRUE, "Cap cuu tong quat / Noi tong quat">> >>, 1)

\* C12 amended -- the cascade has three more steps: bleeding and abdominal
\* pain (both to gastroenterology / surgery) between trauma and cardiac, and
\* poisoning between infection and the default; chest pain goes to
\* cardiology when no step up to abdominal pain matches, whatever of
\* dyspnea, low SpO2, infection and poisoning is set.
RoutingOrder ==
    RoutedNonCritical =>
        LET p == call.p
        IN  /\ call.ret[1] = FirstMatch(
                << <<p.age < 16, "Nhi (hoac Cap cuu Nhi)">>,
                   <<p.pregnancy, "San">>,
                   <<Neuro(p), "Than kinh">>,
                   <<p.trauma, "Ngoai/Chan thuong chinh hinh">>,
                   <<p.bleeding, "Tieu hoa / Ngoai">>,
                   <<p.abdominal_pain, "Tieu hoa / Ngoai">>,
                   <<p.chest_pain, "Tim mach">>,
                   <<p.dyspnea \/ p.spo2 < 94, "Ho hap">>,
                   <<p.infection_suspected, "Nhiem / Noi tong quat">>,
                   <<p.poisoning_overdose, "Chong doc / Noi">>,
                   <<TRUE, "Cap cuu tong quat / Noi tong quat">> >>, 1)
            /\ (/\ p.age >= 16 /\ ~p.pregnancy /\ ~Neuro(p) /\ ~p.trauma
                /\ ~p.bleeding /\ ~p.abdominal_pain /\ p.chest_pain)
                    => call.ret[1] = "Tim mach"

RoutingOrderWitness ==
    /\ RoutedNonCritical
    /\ call.p.chest_pain /\ call.p.dyspnea /\ call.p.spo2 = 93
    /\ call.p.infection_suspected /\ call.p.poisoning_overdose
    /\ call.ret[1] = "Tim mach"

\* ret lists, in ranking order, the labels of exactly those of the first k
\* entries of items whose absolute contribution is at least `least`, or
\* is the sentinel alone when there is none
ListsMaterial(ret, items, k, least) ==
    LET Q == {i \in 1..Min(k, Len(items)) : Abs(items[i][2]) >= least}
    IN  IF Q = {}
        THEN ret = <<"Khong co yeu to noi bat">>
        ELSE /\ Len(ret) = Cardinality(Q)
             /\ \A i \in Q :
                   ret[Cardinality({q \in Q : q <= i})] = FEATURE_LABELS[items[i][1]]

\* C13 -- Explanation materiality threshold: top_reasons returns, in ranking
\* order, the labels of exactly those of the first k ranked entries whose
\* absolute contribution exceeds 0.05 (an entry at exactly 0.05 is omitted),
\* and the 'no dominant factor' sentinel alone if and only if none does.
TopReasonsAboveThreshold ==
    (call.fn = "top_reasons" /\ call.done) =>
        ListsMaterial(call.ret, call.contrib_sorted, call.k, 500 + 1)

\* C14 -- Trend detection: after any sequence of accepted submissions since
\* the last clear, the trend panel reports a worsening trend if and only if
\* at least 3 measurements are recorded and, from the measurement two
\* positions before the most recent one to the most recent one, the EWS is
\* higher, or the SpO2 is lower, or the SBP is lower.
TrendOnEwsSpo2Sbp ==
    LET n == Len(vitals_series)
    IN  (tab2_trend.shown = "warning") <=>
            /\ n >= 3
            /\ \/ vitals_series[n].EWS > vitals_series[n - 2].EWS
               \/ vitals_series[n].SpO2 < vitals_series[n - 2].SpO2
               \/ vitals_series[n].SBP < vitals_series[n - 2].SBP

\* the three stores agree
StoresAgree ==
    /\ Len(logs) = Len(vitals_series)
    /\ (last_case = NoCase) <=> (Len(logs) = 0)
    /\ Len(logs) > 0 => last_case[1].row = logs[Len(logs)]

\* what one script run may do to the stores
StoresStep ==
    /\ Len(logs') > Len(logs) =>
          /\ run'.kind = "rendered"
          /\ Len(logs') = Len(logs) + 1
          /\ SubSeq(logs', 1, Len(logs)) = logs
          /\ Len(vitals_series') = Len(vitals_series) + 1
          /\ SubSeq(vitals_series', 1, Len(vitals_series)) = vitals_series
    /\ run'.kind = "rendered" => Len(logs') = Len(logs) + 1
    /\ run'.kind = "stopped" =>
          UNCHANGED <<logs, vitals_series, last_case, enable_notify>>
    /\ Len(logs') < Len(logs) =>
          /\ logs' = <<>> /\ vitals_series' = <<>> /\ last_case' = NoCase
          /\ enable_notify' = enable_notify

\* C15 -- Session store consistency: after any sequence of accepted and
\* rejected submissions, notify toggles and clears, logs and vitals_series
\* have the same length, last_case is None exactly when logs is empty and
\* otherwise holds the last row of logs; an accepted submission appends one
\* entry to each store, a rejected one changes nothing, and a clear empties
\* logs and vitals_series and resets last_case while enable_notify stays.
SessionStoreConsistency == [](StoresAgree) /\ [][StoresStep]_vars

SessionStoreConsistencyWitness ==
    /\ Len(logs) = 2 /\ Len(vitals_series) = 2
    /\ logs[1].p = Hypoxic /\ logs[2].p = Drowsy
    /\ last_case[1].row = logs[2]
    /\ run.kind = "stopped" /\ run.p.age = 121
    /\ enable_notify

\* the pipeline has returned for the record call.p
Evaluated1 == call.fn = "evaluate" /\ call.done

\* the decision was taken by the hard-safety stage or by the EWS stage
ByStageOneOrTwo(note) ==
    \/ note.head = "Luat an toan kich hoat: "
    \/ note.head = "EWS cao (>=5): "

\* C16 -- Alert and ESI agree with the triage label: for every evaluated
\* record the alert is raised exactly when the decision was taken by stage 1
\* or stage 2 (flags non-empty or EWS >= 5), so every alerted case is
\* Critical; and the ESI level is 1 exactly when the flag list is non-empty,
\* so every ESI-1 case is Critical.
AlertEsiAgreeWithLabel ==
    Evaluated1 =>
        LET e == call.ret[1]
        IN  /\ e.alert <=> (Len(e.flags) > 0 \/ e.ews >= 5)
            /\ e.alert <=> ByStageOneOrTwo(e.note)
            /\ e.alert => e.triage = Triage("RED", "DO (CAP CUU)")
            /\ (e.esi = 1) <=> (Len(e.flags) > 0)
            /\ (e.esi = 1) => e.triage = Triage("RED", "DO (CAP CUU)")

AlertEsiAgreeWithLabelWitness ==
    /\ Evaluated1
    /\ call.ret[1].ews = 5 /\ Len(call.ret[1].flags) = 0
    /\ call.ret[1].alert /\ call.ret[1].esi = 2
    /\ call.ret[1].triage.emoji = "RED"

\* C17 -- Shock index rounding never hides a shock: every validated record
\* whose heart rate is strictly greater than its systolic pressure has a
\* non-empty flag list and the Critical label, also where hr / sbp rounds to
\* exactly 1.00 and the shock-index rule itself stays silent; and
\* calculate_shock_index returns 0.0 when sbp <= 0.
ShockNeverHidden ==
    /\ (Evaluated1 /\ call.p.hr > call.p.sbp) =>
          /\ Len(call.ret[1].flags) > 0
          /\ call.ret[1].triage = Triage("RED", "DO (CAP CUU)")
    /\ (call.fn = "calculate_shock_index" /\ call.done /\ call.sbp <= 0) =>
          call.ret[1] = 0

ShockNeverHiddenWitness ==
    /\ Evaluated1
    /\ call.p.hr = 201 /\ call.p.sbp = 200
    /\ call.ret[1].si = 100
    /\ Reported(call.ret[1].flags, "Shock Index nguy hiem") = 0
    /\ Reported(call.ret[1].flags, "Mach nhanh nang (HR >= 140)") = 1
    /\ call.ret[1].triage.emoji = "RED"

====
